---------------------------- MODULE Spec2Model ----------------------------
(***************************************************************************)
(* State-machine model of the Obsidian <-> GitHub Discussions sync plugin  *)
(* (src/main.ts, second listing, lines 453-1202; src/graphql.ts).          *)
(*                                                                         *)
(* Strings that the code inspects character by character (label names,    *)
(* prefixes) are tuples of one-character strings; identifiers that are     *)
(* only compared for equality (slugs, titles, file names) are strings.     *)
(* A remote call is one step: the request takes effect and the awaiting    *)
(* code resumes, or the call fails and the awaiting code throws.           *)
(***************************************************************************)
EXTENDS Naturals, Sequences, FiniteSets, Bags, TLC

VARIABLES
    settings,       \* this.settings (OGDSettings)
    token,          \* GITHUB_TOKEN
    vaultFolders,   \* names of the TFolder entries of the vault
    files,          \* markdown files under articlesDir, in vault order
    repoCategories, \* discussion category names of the repository
    repoLabels,     \* labels of the repository: label id i has name repoLabels[i]
    discussions,    \* discussions in fetch order: discussion id = index
    dir,            \* per run: which ribbon handler was triggered
    pc,             \* per run: position of the ribbon handler
    snap,           \* per run: the handler's local constants captured by the callbacks
    dlg,            \* per run and class: state of the confirmation dialog
    cb,             \* per run and loop class: position of the async callback
    dlfm,           \* per run: files whose processFrontMatter is still pending
    dlbody,         \* per run and file: position of the body update of that file
    issued,         \* per run and class: kinds of mutations issued so far
    requests,       \* per run: remote requests issued by the handler itself
    labelCreates,   \* per run: bag of label names sent in a create-label mutation
    sent,           \* per run: bag of the mutations issued, <<class, document, kind>>
    call            \* one call of a text function on its own: op, arg, res

vars == <<settings, token, vaultFolders, files, repoCategories, repoLabels,
          discussions, dir, pc, snap, dlg, cb, dlfm, dlbody, issued, requests,
          labelCreates, sent, call>>

(***************************************************************************)
(* Bounds of the model.                                                    *)
(***************************************************************************)
MaxFiles == 2
MaxPosts == 2
\* longest text given to a text function on its own
MaxLen == 5

Runs == {1, 2}

UpClasses == {"create", "labels", "content"}
DownClasses == {"dlcreate", "dlfm", "dlbody"}
Classes == UpClasses \cup DownClasses
LoopClasses == UpClasses \cup {"dlcreate"}

\* JavaScript undefined, for string-valued fields
Undefined == "undefined"
\* an absent or empty series / tags list
Empty == <<>>

\* JavaScript truthiness of a string-valued field
Truthy(v) == v # Undefined /\ v # ""

StartsWith(s, p) == Len(p) <= Len(s) /\ SubSeq(s, 1, Len(p)) = p

Range(s) == {s[k] : k \in 1..Len(s)}

(***************************************************************************)
(* Text.  Dates, bodies and document texts are tuples of one-character     *)
(* strings, split the way String.prototype.split does.                     *)
(***************************************************************************)
Dash == <<"-">>
Slash == <<"/">>
Delimiter == <<"-", "-", "-">>
NL == <<"\n">>
\* what a template literal renders for an undefined component
UndefinedText == <<"u", "n", "d", "e", "f", "i", "n", "e", "d">>

Occurs(s, sep, k) == k + Len(sep) - 1 <= Len(s) /\ SubSeq(s, k, k + Len(sep) - 1) = sep

\* position of the first occurrence of sep in s (0: none)
IndexOf(s, sep) ==
    IF \E k \in 1..Len(s) : Occurs(s, sep, k)
    THEN CHOOSE k \in 1..Len(s) : Occurs(s, sep, k) /\ \A j \in 1..(k - 1) : ~Occurs(s, sep, j)
    ELSE 0

\* s.split(sep)
RECURSIVE Split(_, _)
Split(s, sep) ==
    LET k == IndexOf(s, sep)
    IN  IF k = 0
        THEN <<s>>
        ELSE <<SubSeq(s, 1, k - 1)>> \o Split(SubSeq(s, k + Len(sep), Len(s)), sep)

\* the n-th variable of an array destructuring, as a template literal renders it
Part(parts, n) == IF n <= Len(parts) THEN parts[n] ELSE UndefinedText

\* the earlier listing, main.ts 20-26: const [year, month, day] = dateStr.split('/')
convertDateFormatToObsidianFirst(dateStr) ==
    LET p == Split(dateStr, Slash)
    IN  Part(p, 2) \o Slash \o Part(p, 3) \o Slash \o Part(p, 1)

\* main.ts 482-488: const [year, month, day] = dateStr.split('-')
convertDateFormatToObsidian(dateStr) ==
    LET p == Split(dateStr, Dash)
    IN  Part(p, 2) \o Slash \o Part(p, 3) \o Slash \o Part(p, 1)

\* main.ts 490-496 (and 28-34): const [month, day, year] = dateStr.split('/')
convertDateFormatToGH(dateStr) ==
    LET p == Split(dateStr, Slash)
    IN  Part(p, 3) \o Dash \o Part(p, 1) \o Dash \o Part(p, 2)

IsSpace(ch) == ch \in {" ", "\n"}

\* s.trim()
RECURSIVE Trim(_)
Trim(s) ==
    IF Len(s) = 0 THEN s
    ELSE IF IsSpace(s[1]) THEN Trim(Tail(s))
    ELSE IF IsSpace(s[Len(s)]) THEN Trim(SubSeq(s, 1, Len(s) - 1))
    ELSE s

\* "---\n" + yaml + "---\n" + body (main.ts 748, 883, 971, 1011)
DocText(yaml, body) == Delimiter \o NL \o yaml \o Delimiter \o NL \o body

\* content.split("---")[n], n counted from 0 (main.ts 702, 725, 930-931)
Section(text, n) == Split(text, Delimiter)[n + 1]

\* the serialized front matter of a document, a text without the delimiter
YamlText == <<"k", ":", " ", "v", "\n">>

Strings(alphabet, n) == UNION {[1..k -> alphabet] : k \in 0..n}

Digits == {"0", "1"}

\* YYYY-MM-DD and MM/DD/YYYY
WellFormedGH ==
    {y \o Dash \o m \o Dash \o d : y \in [1..4 -> Digits], m \in [1..2 -> Digits], d \in [1..2 -> Digits]}

WellFormedObsidian ==
    {m \o Slash \o d \o Slash \o y : y \in [1..4 -> Digits], m \in [1..2 -> Digits], d \in [1..2 -> Digits]}

DateInputs == Strings({"1", "-", "/"}, MaxLen) \cup WellFormedGH \cup WellFormedObsidian

Bodies == Strings({"a", "-", "\n"}, MaxLen)

\* the JSON body of a response of the endpoint: errors and data may each be
\* missing; errors holds the messages of the reported errors
Response(hasErrors, errors, data) ==
    [received |-> TRUE, hasErrors |-> hasErrors, errors |-> errors, data |-> data]

\* no request made
NoResponse == [Response(FALSE, <<>>, Undefined) EXCEPT !.received = FALSE]

Responses ==
    {Response(TRUE, e, d) : e \in {<<>>, <<"e1">>, <<"e1", "e2">>, <<"e2", "e1">>},
                           d \in {Undefined, "data"}}
        \cup {Response(FALSE, <<>>, d) : d \in {Undefined, "data"}}

Throw(message) == [kind |-> "throw", message |-> message, data |-> Undefined]

Return(data) == [kind |-> "return", message |-> "", data |-> data]

\* executeGitHubGraphQL once response.json() has resolved (main.ts 532-536);
\* an array is truthy also when empty, and errors[0].message of an empty
\* array is a TypeError
executeGitHubGraphQL(result) ==
    IF result.hasErrors
    THEN IF Len(result.errors) = 0 THEN Throw("TypeError") ELSE Throw(result.errors[1])
    ELSE Return(result.data)

\* listing: which of the two listings of main.ts the called functions are from
NoCall == [op |-> "none", listing |-> 2, arg |-> <<>>, res |-> <<>>, response |-> NoResponse]

(***************************************************************************)
(* Input data.  Tags and series names are one character long; a label     *)
(* name is a prefix followed by the tag or series name.                    *)
(***************************************************************************)
TagA == <<"a">>
TagB == <<"b">>
SeriesC == <<"c">>
OtherLabel == <<"x">>

\* (tagLabelPrefix, seriesLabelPrefix, draftLabel): the defaults' shape, an
\* empty tag prefix, one prefix shared by tags and series
PrefixConfigs ==
    { [tag |-> <<"t", "/">>, series |-> <<"s", "/">>, draft |-> <<"d">>],
      [tag |-> <<>>,         series |-> <<"s", "/">>, draft |-> <<"d">>],
      [tag |-> <<"t", "/">>, series |-> <<"t", "/">>, draft |-> <<"t", "/", "d">>] }

\* what checkSettings and the category lookup read: all in order, or one of
\* the preconditions broken; the Make.md setting is on in the second one
EnvConfigs ==
    { [token |-> "tok",     owner |-> "o", repo |-> "r", folders |-> {"/", "Blog"},  cats |-> {"Blog Posts"}],
      [token |-> "tok",     owner |-> "o", repo |-> "r", folders |-> {"/", "Blog", "Notes"}, cats |-> {"Blog Posts", "General"}],
      [token |-> Undefined, owner |-> "o", repo |-> "r", folders |-> {"/", "Blog"},  cats |-> {"Blog Posts"}],
      [token |-> "tok",     owner |-> "",  repo |-> "r", folders |-> {"/", "Blog"},  cats |-> {"Blog Posts"}],
      [token |-> "tok",     owner |-> "o", repo |-> "",  folders |-> {"/", "Blog"},  cats |-> {"Blog Posts"}],
      [token |-> "tok",     owner |-> "o", repo |-> "r", folders |-> {"/"},      cats |-> {"Blog Posts"}],
      [token |-> "tok",     owner |-> "o", repo |-> "r", folders |-> {"/", "Notes"}, cats |-> {"Blog Posts"}],
      [token |-> "tok",     owner |-> "o", repo |-> "r", folders |-> {"/", "Blog"},  cats |-> {"General"}] }

\* published dates: a local one (MM/DD/YYYY), one with a component missing,
\* a remote one (YYYY-MM-DD)
LocalDate == <<"0", "1", "/", "1", "0", "/", "0", "0", "0", "1">>
ShortDate == <<"1", "1", "/", "0", "0", "0", "1">>
RemoteDate == <<"0", "0", "1", "1", "-", "1", "1", "-", "0", "1">>

\* bodies: a word, and a line with three dashes inside it
PlainBody == <<"p">>
DashedBody == <<"p", "-", "-", "-", "q">>
RemoteBody == <<"q">>

\* the front matter and the body of a local document
LocalDoc(name, slug, tags, series, published, body) ==
    [name |-> name, slug |-> slug, tags |-> tags, series |-> series,
     description |-> "dl", published |-> published, body |-> body, extra |-> FALSE,
     created |-> FALSE, raw |-> <<>>]

\* a file that is not a document: raw is its whole content, here an opening
\* delimiter line with nothing after it
OpenedOnly == <<"-", "-", "-", "\n">>

RawFile(name, text) ==
    [LocalDoc(name, Undefined, Empty, Empty, <<>>, <<>>) EXCEPT !.raw = text]

\* local documents: name is the file's basename (Blog is the folder note of
\* the articles directory); created marks a file that a download run
\* created, extra a front matter key other than the five the plugin names;
\* the last one has no front matter
LocalDocs ==
    << LocalDoc("T1", "s1", <<TagA>>, Empty, LocalDate, PlainBody),
       LocalDoc("T2", "s2", <<TagA>>, SeriesC, ShortDate, DashedBody),
       LocalDoc("T3", Undefined, <<TagA>>, Empty, LocalDate, PlainBody),
       LocalDoc("Blog", "s1", Empty, Empty, LocalDate, PlainBody),
       RawFile("T4", OpenedOnly) >>

\* the title, the metadata block, the body and the labels of a remote record
RemoteDoc(slug, title, labels, extra) ==
    [slug |-> slug, title |-> title, labels |-> labels,
     description |-> "dr", published |-> RemoteDate, body |-> RemoteBody, extra |-> extra]

\* remote records: labels by name here, by id in the state; the first two
\* share their title
RemoteDocs(cfg) ==
    << RemoteDoc("s1", "T1", {OtherLabel, cfg.draft, cfg.tag \o TagB}, TRUE),
       RemoteDoc("s2", "T1", {}, FALSE),
       RemoteDoc(Undefined, "T5", {}, FALSE),
       RemoteDoc("s1", "T3", {cfg.tag \o TagB}, FALSE) >>

RECURSIVE SortedSeq(_)
SortedSeq(S) ==
    IF S = {}
    THEN <<>>
    ELSE LET m == CHOOSE x \in S : \A y \in S : x <= y
         IN  <<m>> \o SortedSeq(S \ {m})

\* the selections of at most n entries of a catalogue, in catalogue order
Selections(cat, n) ==
    { [k \in 1..Cardinality(S) |-> cat[SortedSeq(S)[k]]] :
        S \in {T \in SUBSET (1..Len(cat)) : Cardinality(T) <= n} }

\* id of the label called name in the label list labels (0: none)
LabelId(labels, name) ==
    IF \E k \in 1..Len(labels) : labels[k] = name
    THEN CHOOSE k \in 1..Len(labels) : labels[k] = name
    ELSE 0

IdleCb == [pc |-> "idle", i |-> 0, ph |-> "none", j |-> 0, ids |-> {}, rm |-> {}, id |-> 0]

NoSnap == [matched |-> FALSE, existingLabels |-> <<>>, ghArticles |-> <<>>,
           markdownFiles |-> <<>>, newFiles |-> <<>>, existingFiles |-> <<>>,
           ghArticleMap |-> <<>>, newArticles |-> <<>>]

InitVault ==
    \E cfg \in PrefixConfigs, env \in EnvConfigs, hasTagA \in BOOLEAN,
       fs \in Selections(LocalDocs, MaxFiles) :
      \E ds \in Selections(RemoteDocs(cfg), MaxPosts) :
        /\ ("Blog" \notin env.folders => fs = <<>>)
        /\ settings = [articlesDir |-> "Blog", makeMd |-> "Notes" \in env.folders /\ "Blog" \in env.folders,
                       owner |-> env.owner, repo |-> env.repo,
                       blogPostCategory |-> "Blog Posts", draftLabel |-> cfg.draft,
                       tagLabelPrefix |-> cfg.tag, seriesLabelPrefix |-> cfg.series]
        /\ token = env.token
        /\ vaultFolders = env.folders
        /\ files = fs
        /\ repoCategories = env.cats
        /\ repoLabels = <<OtherLabel, cfg.draft, cfg.tag \o TagB>>
                           \o (IF hasTagA THEN <<cfg.tag \o TagA>> ELSE <<>>)
        /\ discussions = [k \in 1..Len(ds) |->
                             [ds[k] EXCEPT !.labels = {LabelId(repoLabels, n) : n \in ds[k].labels}]]
        /\ dir = [r \in Runs |-> "none"]
        /\ pc = [r \in Runs |-> "idle"]
        /\ snap = [r \in Runs |-> NoSnap]
        /\ dlg = [r \in Runs |-> [c \in Classes |-> "none"]]
        /\ cb = [r \in Runs |-> [c \in LoopClasses |-> IdleCb]]
        /\ dlfm = [r \in Runs |-> {}]
        /\ dlbody = [r \in Runs |-> <<>>]
        /\ issued = [r \in Runs |-> [c \in Classes |-> {}]]
        /\ requests = [r \in Runs |-> {}]
        /\ labelCreates = [r \in Runs |-> EmptyBag]
        /\ sent = [r \in Runs |-> EmptyBag]

Init == InitVault /\ call = NoCall

(***************************************************************************)
(* checkSettings (main.ts 1022-1052).  The result of folders.filter is     *)
(* discarded, so only a vault without any folder fails the first test.     *)
(***************************************************************************)
checkSettingsNoToken ==
    IF Cardinality(vaultFolders) = 0
    THEN FALSE
    ELSE ~(settings.owner = "" \/ settings.repo = "")

checkSettings ==
    IF Cardinality(vaultFolders) = 0
    THEN FALSE
    ELSE Truthy(token) /\ ~(settings.owner = "" \/ settings.repo = "")

\* the markdown files under articlesDir, by index, without the folder note
\* when makeMd is set (main.ts 688-694, 914-918)
markdownFiles ==
    SelectSeq([k \in 1..Len(files) |-> k],
              LAMBDA k : ~(settings.makeMd /\ files[k].name = settings.articlesDir))

\* the lookup taking the first category whatever its name
categoryFoundAny == repoCategories # {}

\* repoInfo...discussionCategories.nodes.find(...)?.id (main.ts 661-664)
categoryFound == settings.blogPostCategory \in repoCategories

\* ghArticles.find(post => parseYaml(post.body.split("---")[1]).slug === slug):
\* index of the first post with that slug, 0 when there is none (main.ts 708-711)
FindPost(gh, slug) ==
    IF \E k \in 1..Len(gh) : gh[k].slug = slug
    THEN CHOOSE k \in 1..Len(gh) : gh[k].slug = slug /\ \A m \in 1..(k - 1) : gh[m].slug # slug
    ELSE 0

\* the content of a file as vault.read returns it
Content(f) == IF f.raw # <<>> THEN f.raw ELSE DocText(YamlText, f.body)

\* if (sections.length < 3) continue, negated (main.ts 702-703)
HasSections(k) == Len(Split(Content(files[k]), Delimiter)) >= 3

\* parseYaml of an empty document is null, and reading .slug of it throws
\* (main.ts 946-947, 1008-1010)
SlugReadThrows(k) ==
    LET sections == Split(Content(files[k]), Delimiter)
    IN  Len(sections) >= 2 /\ Trim(sections[2]) = <<>>

\* the loop entry of a file: its handle and parsed front matter (main.ts 714, 716)
Entry(k) == [file |-> k, frontMatter |-> files[k]]

\* the files the matching loop pushes to existingFiles (main.ts 700-714)
ExistingFilesOf(gh) ==
    SelectSeq([p \in 1..Len(markdownFiles) |-> Entry(markdownFiles[p])],
              LAMBDA e : /\ HasSections(e.file)
                         /\ Truthy(e.frontMatter.slug) /\ FindPost(gh, e.frontMatter.slug) # 0)

\* the matching loop without its else: every slugged file is pushed to newFiles
NewFilesNoElse(gh) ==
    SelectSeq([p \in 1..Len(markdownFiles) |-> Entry(markdownFiles[p])],
              LAMBDA e : HasSections(e.file) /\ Truthy(e.frontMatter.slug))

\* the files the matching loop pushes to newFiles (main.ts 700-717)
NewFilesOf(gh) ==
    SelectSeq([p \in 1..Len(markdownFiles) |-> Entry(markdownFiles[p])],
              LAMBDA e : /\ HasSections(e.file)
                         /\ Truthy(e.frontMatter.slug) /\ FindPost(gh, e.frontMatter.slug) = 0)

\* label names rendered from a document's tags and series (main.ts 726-734, 789-797)
LabelsOf(fm) ==
    [k \in 1..Len(fm.tags) |-> settings.tagLabelPrefix \o fm.tags[k]]
        \o (IF fm.series # Empty THEN <<settings.seriesLabelPrefix \o fm.series>> ELSE <<>>)

\* the filter left out: every label of the discussion is removed
RemoveFilterNone(name) == TRUE

\* the filter testing the series prefix only
RemoveFilterSeriesOnly(name) == StartsWith(name, settings.seriesLabelPrefix)

\* the filter of existingLabelsToRemove (main.ts 821-825)
RemoveFilter(name) ==
    \/ StartsWith(name, settings.tagLabelPrefix)
    \/ StartsWith(name, settings.seriesLabelPrefix)

\* a callback that does not test result
AcceptedUntested(result) == TRUE

\* if (result) of a dialog callback (main.ts 723, 781, 865, 959, 983, 1005)
Accepted(result) == result

\* createOrUpdateLabels up to its next await: labels found in existingLabels
\* are resolved from it, the first one missing needs a create-label call
\* (main.ts 548-552)
RECURSIVE ScanLabels(_, _, _, _)
ScanLabels(cache, names, j, ids) ==
    IF j > Len(names)
    THEN [j |-> j, ids |-> ids]
    ELSE IF LabelId(cache, names[j]) # 0
         THEN ScanLabels(cache, names, j + 1, ids \cup {LabelId(cache, names[j])})
         ELSE [j |-> j, ids |-> ids]

\* the documents a loop callback of run r iterates over
DocsOf(r, c) ==
    CASE c = "create" -> snap[r].newFiles
      [] c = "dlcreate" -> snap[r].newArticles
      [] OTHER -> snap[r].existingFiles

\* where a callback stands once createOrUpdateLabels has reached scan
AfterScanNoCreate(c, i, names, scan) ==
    [pc |-> "run", i |-> i, ph |-> IF c = "create" THEN "createDiscussion"
                                   ELSE IF scan.j <= Len(names) THEN "createLabel" ELSE "getLabels",
     j |-> IF c # "create" /\ scan.j <= Len(names) THEN scan.j ELSE 0,
     ids |-> scan.ids, rm |-> {}, id |-> 0]

AfterScan(c, i, names, scan) ==
    IF scan.j <= Len(names)
    THEN [pc |-> "run", i |-> i, ph |-> "createLabel", j |-> scan.j, ids |-> scan.ids,
          rm |-> {}, id |-> 0]
    ELSE [pc |-> "run", i |-> i, ph |-> IF c = "create" THEN "createDiscussion" ELSE "getLabels",
          j |-> 0, ids |-> scan.ids, rm |-> {}, id |-> 0]

\* a loop callback of run r entering iteration i, up to its first await
StartDoc(r, c, i) ==
    IF i > Len(DocsOf(r, c))
    THEN [IdleCb EXCEPT !.pc = "done", !.i = i - 1]
    ELSE CASE c = "content" -> [IdleCb EXCEPT !.pc = "run", !.i = i, !.ph = "updateDiscussion"]
           [] c = "dlcreate" -> [IdleCb EXCEPT !.pc = "run", !.i = i, !.ph = "vaultCreate"]
           [] OTHER ->
                AfterScan(c, i, LabelsOf(DocsOf(r, c)[i].frontMatter),
                          ScanLabels(snap[r].existingLabels,
                                     LabelsOf(DocsOf(r, c)[i].frontMatter), 1, {}))

\* an awaited call threw: the callback's promise rejects and its loop ends
Failed(s) == [s EXCEPT !.pc = "failed"]

(***************************************************************************)
(* upload: the ribbon handler (main.ts 644-718)                            *)
(***************************************************************************)
Upload(r) ==
    /\ pc[r] = "idle"
    /\ dir' = [dir EXCEPT ![r] = "upload"]
    /\ pc' = [pc EXCEPT ![r] = IF checkSettings THEN "repoInfo" ELSE "done"]
    /\ UNCHANGED <<call, settings, token, vaultFolders, files, repoCategories, repoLabels,
                   discussions, snap, dlg, cb, dlfm, dlbody, issued, sent, requests, labelCreates>>

\* GET_REPOSITORY_INFO, the category lookup and the known-labels map (main.ts 651-672)
UpRepoInfo(r) ==
    /\ dir[r] = "upload" /\ pc[r] = "repoInfo"
    /\ requests' = [requests EXCEPT ![r] = @ \cup {"repoInfo"}]
    /\ \E ok \in BOOLEAN :
         IF ok /\ categoryFound
         THEN /\ snap' = [snap EXCEPT ![r].existingLabels = repoLabels]
              /\ pc' = [pc EXCEPT ![r] = "fetch"]
         ELSE /\ pc' = [pc EXCEPT ![r] = "done"]
              /\ UNCHANGED snap
    /\ UNCHANGED <<call, settings, token, vaultFolders, files, repoCategories, repoLabels,
                   discussions, dir, dlg, cb, dlfm, dlbody, issued, sent, labelCreates>>

\* fetchGithubDiscussions (main.ts 675-685, 578-624)
UpFetch(r) ==
    /\ dir[r] = "upload" /\ pc[r] = "fetch"
    /\ requests' = [requests EXCEPT ![r] = @ \cup {"fetch"}]
    /\ \E ok \in BOOLEAN :
         IF ok
         THEN /\ snap' = [snap EXCEPT ![r].ghArticles = discussions]
              /\ pc' = [pc EXCEPT ![r] = "match"]
         ELSE /\ pc' = [pc EXCEPT ![r] = "done"]
              /\ UNCHANGED snap
    /\ UNCHANGED <<call, settings, token, vaultFolders, files, repoCategories, repoLabels,
                   discussions, dir, dlg, cb, dlfm, dlbody, issued, sent, labelCreates>>

\* reading and matching the files, then opening the dialogs (main.ts 688-900)
UpMatch(r) ==
    /\ dir[r] = "upload" /\ pc[r] = "match"
    /\ snap' = [snap EXCEPT ![r].matched = TRUE,
                            ![r].markdownFiles = markdownFiles,
                            ![r].newFiles = NewFilesOf(snap[r].ghArticles),
                            ![r].existingFiles = ExistingFilesOf(snap[r].ghArticles)]
    /\ dlg' = [dlg EXCEPT ![r] =
                 [c \in Classes |->
                    CASE c = "create" -> IF Len(snap'[r].newFiles) > 0 THEN "open" ELSE "none"
                      [] c \in {"labels", "content"} ->
                           IF Len(snap'[r].existingFiles) > 0 THEN "open" ELSE "none"
                      [] OTHER -> "none"]]
    /\ pc' = [pc EXCEPT ![r] = "done"]
    /\ UNCHANGED <<call, settings, token, vaultFolders, files, repoCategories, repoLabels,
                   discussions, dir, cb, dlfm, dlbody, issued, sent, requests, labelCreates>>

(***************************************************************************)
(* OGDModal (main.ts 1066-1090): Submit closes the modal and calls         *)
(* onSubmit(approve).  A modal closed any other way calls nothing, which   *)
(* is a dialog that stays "open" here.                                     *)
(***************************************************************************)
Submit(r, c, approve) ==
    /\ dlg[r][c] = "open"
    /\ dlg' = [dlg EXCEPT ![r][c] = IF approve THEN "on" ELSE "off"]
    /\ IF Accepted(approve)
       THEN /\ cb' = IF c \in LoopClasses
                     THEN [cb EXCEPT ![r][c] = StartDoc(r, c, 1)]
                     ELSE cb
            /\ dlfm' = IF c = "dlfm"
                       THEN [dlfm EXCEPT ![r] = Range(snap[r].markdownFiles)]
                       ELSE dlfm
            /\ dlbody' = IF c = "dlbody"
                         THEN [dlbody EXCEPT ![r] =
                                 [p \in 1..Len(snap[r].markdownFiles) |->
                                     [st |-> "read", fm |-> <<>>]]]
                         ELSE dlbody
       ELSE UNCHANGED <<cb, dlfm, dlbody>>
    /\ UNCHANGED <<call, settings, token, vaultFolders, files, repoCategories, repoLabels,
                   discussions, dir, pc, snap, issued, sent, requests, labelCreates>>

(***************************************************************************)
(* The remote calls of the upload callbacks.  Each is issued, and then     *)
(* either takes effect and returns or fails (executeGitHubGraphQL throws). *)
(***************************************************************************)
\* CREATE_LABEL_MUTATION inside createOrUpdateLabels (main.ts 554-564); the
\* repository refuses a second label of the same name
CreateLabelCall(r, c) ==
    LET s == cb[r][c]
        names == LabelsOf(DocsOf(r, c)[s.i].frontMatter)
        name == names[s.j]
    IN  /\ issued' = [issued EXCEPT ![r][c] = @ \cup {"createLabel"}]
        /\ sent' = [sent EXCEPT ![r] = @ (+) SetToBag({<<c, s.i, "createLabel">>})]
        /\ labelCreates' = [labelCreates EXCEPT ![r] = @ (+) SetToBag({name})]
        /\ \E ok \in BOOLEAN :
             IF ok /\ LabelId(repoLabels, name) = 0
             THEN /\ repoLabels' = Append(repoLabels, name)
                  /\ cb' = [cb EXCEPT ![r][c] =
                              AfterScan(c, s.i, names,
                                        ScanLabels(snap[r].existingLabels, names, s.j + 1,
                                                   s.ids \cup {Len(repoLabels) + 1}))]
             ELSE /\ cb' = [cb EXCEPT ![r][c] = Failed(s)]
                  /\ UNCHANGED repoLabels
        /\ UNCHANGED discussions

\* sections[2].trim() of a document captured by the match loop (main.ts 725, 873)
UploadBody(doc) == Trim(Section(DocText(YamlText, doc.frontMatter.body), 2))

\* githubFrontMatter without the slug key
githubFrontMatterNoSlug(doc) ==
    [slug |-> Undefined,
     description |-> doc.frontMatter.description,
     published |-> convertDateFormatToGH(doc.frontMatter.published)]

\* githubFrontMatter (main.ts 741-745, 876-880)
githubFrontMatter(doc) ==
    [slug |-> doc.frontMatter.slug,
     description |-> doc.frontMatter.description,
     published |-> convertDateFormatToGH(doc.frontMatter.published)]

\* the discussion that title and discussionBody make (main.ts 748, 756-757, 883, 890-891)
Discussion(title, fm, body, labels) ==
    [slug |-> fm.slug, title |-> title, labels |-> labels, description |-> fm.description,
     published |-> fm.published, body |-> body, extra |-> FALSE]

\* CREATE_DISCUSSION_MUTATION (main.ts 741-760)
CreateDiscussionCall(r) ==
    LET s == cb[r]["create"]
        doc == snap[r].newFiles[s.i]
    IN  /\ issued' = [issued EXCEPT ![r]["create"] = @ \cup {"createDiscussion"}]
        /\ sent' = [sent EXCEPT ![r] = @ (+) SetToBag({<<"create", s.i, "createDiscussion">>})]
        /\ \E ok \in BOOLEAN :
             IF ok
             THEN /\ discussions' = Append(discussions,
                                           Discussion(files[doc.file].name,
                                                      githubFrontMatter(doc),
                                                      UploadBody(doc), {}))
                  /\ cb' = [cb EXCEPT ![r]["create"] =
                              [s EXCEPT !.ph = "addLabels", !.id = Len(discussions) + 1]]
             ELSE /\ cb' = [cb EXCEPT ![r]["create"] = Failed(s)]
                  /\ UNCHANGED discussions
        /\ UNCHANGED <<repoLabels, labelCreates>>

\* ADD_LABELS_TO_DISCUSSION for discussion id (main.ts 763-770, 848-855)
AddLabelsCall(r, c, id) ==
    LET s == cb[r][c]
    IN  /\ issued' = [issued EXCEPT ![r][c] = @ \cup {"addLabels"}]
        /\ sent' = [sent EXCEPT ![r] = @ (+) SetToBag({<<c, s.i, "addLabels">>})]
        /\ \E ok \in BOOLEAN :
             IF ok
             THEN /\ discussions' = [discussions EXCEPT ![id].labels = @ \cup s.ids]
                  /\ cb' = [cb EXCEPT ![r][c] = StartDoc(r, c, s.i + 1)]
             ELSE /\ cb' = [cb EXCEPT ![r][c] = Failed(s)]
                  /\ UNCHANGED discussions
        /\ UNCHANGED <<repoLabels, labelCreates>>

\* the add step as an else branch of the remove step
AfterRemoveElse(r, s) ==
    IF Cardinality(s.ids) > 0 /\ Cardinality(s.rm) = 0
    THEN [s EXCEPT !.ph = "addLabels"]
    ELSE StartDoc(r, "labels", s.i + 1)

\* the labels callback once the remove step is behind it (main.ts 846-857)
AfterRemove(r, s) ==
    IF Cardinality(s.ids) > 0
    THEN [s EXCEPT !.ph = "addLabels"]
    ELSE StartDoc(r, "labels", s.i + 1)

\* the getDiscussionLabels query and the filter (main.ts 804-828)
GetLabelsCall(r, id) ==
    LET s == cb[r]["labels"]
        rm == {l \in discussions[id].labels : RemoveFilter(repoLabels[l])}
    IN  /\ issued' = [issued EXCEPT ![r]["labels"] = @ \cup {"getLabels"}]
        /\ sent' = [sent EXCEPT ![r] = @ (+) SetToBag({<<"labels", s.i, "getLabels">>})]
        /\ \E ok \in BOOLEAN :
             IF ok
             THEN cb' = [cb EXCEPT ![r]["labels"] =
                           IF Cardinality(rm) > 0
                           THEN [s EXCEPT !.ph = "removeLabels", !.rm = rm]
                           ELSE AfterRemove(r, s)]
             ELSE cb' = [cb EXCEPT ![r]["labels"] = Failed(s)]
        /\ UNCHANGED <<repoLabels, discussions, labelCreates>>

\* the removeLabelsFromLabelable mutation (main.ts 828-844)
RemoveLabelsCall(r, id) ==
    LET s == cb[r]["labels"]
    IN  /\ issued' = [issued EXCEPT ![r]["labels"] = @ \cup {"removeLabels"}]
        /\ sent' = [sent EXCEPT ![r] = @ (+) SetToBag({<<"labels", s.i, "removeLabels">>})]
        /\ \E ok \in BOOLEAN :
             IF ok
             THEN /\ discussions' = [discussions EXCEPT ![id].labels = @ \ s.rm]
                  /\ cb' = [cb EXCEPT ![r]["labels"] = AfterRemove(r, s)]
             ELSE /\ cb' = [cb EXCEPT ![r]["labels"] = Failed(s)]
                  /\ UNCHANGED discussions
        /\ UNCHANGED <<repoLabels, labelCreates>>

\* UPDATE_DISCUSSION_MUTATION (main.ts 873-894)
UpdateDiscussionCall(r, id) ==
    LET s == cb[r]["content"]
        doc == snap[r].existingFiles[s.i]
    IN  /\ issued' = [issued EXCEPT ![r]["content"] = @ \cup {"updateDiscussion"}]
        /\ sent' = [sent EXCEPT ![r] = @ (+) SetToBag({<<"content", s.i, "updateDiscussion">>})]
        /\ \E ok \in BOOLEAN :
             IF ok
             THEN /\ discussions' = [discussions EXCEPT ![id] =
                                         Discussion(files[doc.file].name, githubFrontMatter(doc),
                                                    UploadBody(doc), @.labels)]
                  /\ cb' = [cb EXCEPT ![r]["content"] = StartDoc(r, "content", s.i + 1)]
             ELSE /\ cb' = [cb EXCEPT ![r]["content"] = Failed(s)]
                  /\ UNCHANGED discussions
        /\ UNCHANGED <<repoLabels, labelCreates>>

\* existingPost of the current document of a callback over existingFiles
\* (main.ts 783-786, 867-870)
ExistingPost(r, c) ==
    FindPost(snap[r].ghArticles, snap[r].existingFiles[cb[r][c].i].frontMatter.slug)

\* one awaited call of the "create new discussions" callback (main.ts 722-774)
CreateStep(r) ==
    /\ cb[r]["create"].pc = "run"
    /\ CASE cb[r]["create"].ph = "createLabel" -> CreateLabelCall(r, "create")
         [] cb[r]["create"].ph = "createDiscussion" -> CreateDiscussionCall(r)
         [] cb[r]["create"].ph = "addLabels" -> AddLabelsCall(r, "create", cb[r]["create"].id)
    /\ UNCHANGED <<call, settings, token, vaultFolders, files, repoCategories, dir, pc, snap,
                   dlg, dlfm, dlbody, requests>>

\* one awaited call of the "update frontmatter and labels" callback (main.ts 780-861)
LabelsStep(r) ==
    /\ cb[r]["labels"].pc = "run"
    /\ CASE cb[r]["labels"].ph = "createLabel" -> CreateLabelCall(r, "labels")
         [] cb[r]["labels"].ph = "getLabels" -> GetLabelsCall(r, ExistingPost(r, "labels"))
         [] cb[r]["labels"].ph = "removeLabels" -> RemoveLabelsCall(r, ExistingPost(r, "labels"))
         [] cb[r]["labels"].ph = "addLabels" -> AddLabelsCall(r, "labels", ExistingPost(r, "labels"))
    /\ UNCHANGED <<call, settings, token, vaultFolders, files, repoCategories, dir, pc, snap,
                   dlg, dlfm, dlbody, requests>>

\* the content callback writing the trimmed body back to the local file
ContentStepWritesFile(r) ==
    /\ cb[r]["content"].pc = "run"
    /\ UpdateDiscussionCall(r, ExistingPost(r, "content"))
    /\ files' = [files EXCEPT ![snap[r].existingFiles[cb[r]["content"].i].file].body =
                                 UploadBody(snap[r].existingFiles[cb[r]["content"].i])]
    /\ UNCHANGED <<call, settings, token, vaultFolders, repoCategories, dir, pc, snap,
                   dlg, dlfm, dlbody, requests>>

\* one awaited call of the "update discussion content" callback (main.ts 864-899)
ContentStep(r) ==
    /\ cb[r]["content"].pc = "run"
    /\ UpdateDiscussionCall(r, ExistingPost(r, "content"))
    /\ UNCHANGED <<call, settings, token, vaultFolders, files, repoCategories, dir, pc, snap,
                   dlg, dlfm, dlbody, requests>>

(***************************************************************************)
(* download (main.ts 909-1020)                                             *)
(***************************************************************************)
Strip(name, p) == SubSeq(name, Len(p) + 1, Len(name))

\* article.tags as the client derives it from the record's labels
TagsFromLabels(ids) ==
    LET tagIds == SortedSeq({l \in ids : StartsWith(repoLabels[l], settings.tagLabelPrefix)})
    IN  [k \in 1..Len(tagIds) |-> Strip(repoLabels[tagIds[k]], settings.tagLabelPrefix)]

\* article.series.id as the client derives it from the record's labels
SeriesFromLabels(ids) ==
    LET serIds == SortedSeq({l \in ids : StartsWith(repoLabels[l], settings.seriesLabelPrefix)})
    IN  IF Len(serIds) > 0
        THEN Strip(repoLabels[serIds[1]], settings.seriesLabelPrefix)
        ELSE Empty

\* the value stored for an article: its front matter with tags and series
\* set from the article, and its title (main.ts 931-940)
ArticleEntry(gh, k) ==
    [slug |-> gh[k].slug, title |-> gh[k].title, tags |-> TagsFromLabels(gh[k].labels),
     series |-> SeriesFromLabels(gh[k].labels), description |-> gh[k].description,
     published |-> gh[k].published, extra |-> gh[k].extra,
     body |-> Section(DocText(YamlText, gh[k].body), 2), id |-> k]

\* position of key in a Map kept as the list of its entries (0: absent)
MapIndex(m, key) ==
    IF \E k \in 1..Len(m) : m[k].slug = key
    THEN CHOOSE k \in 1..Len(m) : m[k].slug = key
    ELSE 0

\* Map.prototype.set: a new key is appended, a known key keeps its place
\* and takes the new value (main.ts 940)
MapSet(m, e) ==
    IF MapIndex(m, e.slug) # 0
    THEN [m EXCEPT ![MapIndex(m, e.slug)] = e]
    ELSE Append(m, e)

\* ghArticles.forEach(article => ghArticleMap.set(...)) (main.ts 929-941)
RECURSIVE BuildMap(_, _, _)
BuildMap(gh, k, m) ==
    IF k > Len(gh) THEN m ELSE BuildMap(gh, k + 1, MapSet(m, ArticleEntry(gh, k)))

\* existingFileSlugs over the files listed at the trigger (main.ts 944-951)
ExistingFileSlugs(mdFiles) ==
    {files[k].slug : k \in {x \in Range(mdFiles) : Truthy(files[x].slug)}}

\* newArticles (main.ts 954-955)
NewArticlesOf(m, mdFiles) ==
    SelectSeq(m, LAMBDA e : e.slug \notin ExistingFileSlugs(mdFiles))

Download(r) ==
    /\ pc[r] = "idle"
    /\ dir' = [dir EXCEPT ![r] = "download"]
    /\ IF checkSettings
       THEN /\ pc' = [pc EXCEPT ![r] = "fetch"]
            /\ snap' = [snap EXCEPT ![r].markdownFiles = markdownFiles]
       ELSE /\ pc' = [pc EXCEPT ![r] = "done"]
            /\ UNCHANGED snap
    /\ UNCHANGED <<call, settings, token, vaultFolders, files, repoCategories, repoLabels,
                   discussions, dlg, cb, dlfm, dlbody, issued, sent, requests, labelCreates>>

\* fetchGithubDiscussions and the article map (main.ts 921-941)
DlFetch(r) ==
    /\ dir[r] = "download" /\ pc[r] = "fetch"
    /\ requests' = [requests EXCEPT ![r] = @ \cup {"fetch"}]
    /\ \E ok \in BOOLEAN :
         IF ok
         THEN /\ snap' = [snap EXCEPT ![r].ghArticles = discussions,
                                      ![r].ghArticleMap = BuildMap(discussions, 1, <<>>)]
              /\ pc' = [pc EXCEPT ![r] = "read"]
         ELSE /\ pc' = [pc EXCEPT ![r] = "done"]
              /\ UNCHANGED snap
    /\ UNCHANGED <<call, settings, token, vaultFolders, files, repoCategories, repoLabels,
                   discussions, dir, dlg, cb, dlfm, dlbody, issued, sent, labelCreates>>

\* reading the files' slugs, newArticles, and opening the dialogs
\* (main.ts 944-1016); a throw while reading ends the handler, which has no
\* catch
DlRead(r) ==
    /\ dir[r] = "download" /\ pc[r] = "read"
    /\ IF \E k \in Range(snap[r].markdownFiles) : SlugReadThrows(k)
       THEN UNCHANGED <<snap, dlg>>
       ELSE /\ snap' = [snap EXCEPT ![r].matched = TRUE,
                                    ![r].newArticles =
                                      NewArticlesOf(snap[r].ghArticleMap, snap[r].markdownFiles)]
            /\ dlg' = [dlg EXCEPT ![r] =
                         [c \in Classes |->
                            CASE c = "dlcreate" ->
                                   IF Len(snap'[r].newArticles) > 0 THEN "open" ELSE "none"
                              [] c \in {"dlfm", "dlbody"} -> "open"
                              [] OTHER -> "none"]]
    /\ pc' = [pc EXCEPT ![r] = "done"]
    /\ UNCHANGED <<call, settings, token, vaultFolders, files, repoCategories, repoLabels,
                   discussions, dir, cb, dlfm, dlbody, issued, sent, requests, labelCreates>>

\* vault.create of one new article; it throws when the path exists (main.ts 960-975)
\* the file that vault.create makes of a new article (main.ts 962-974)
NewFile(e) ==
    [name |-> e.title, slug |-> e.slug, tags |-> e.tags, series |-> e.series,
     description |-> e.description, published |-> convertDateFormatToObsidian(e.published),
     body |-> e.body, extra |-> e.extra, created |-> TRUE, raw |-> <<>>]

DlCreateStep(r) ==
    LET s == cb[r]["dlcreate"]
        e == snap[r].newArticles[s.i]
    IN  /\ s.pc = "run"
        /\ issued' = [issued EXCEPT ![r]["dlcreate"] = @ \cup {"vaultCreate"}]
        /\ sent' = [sent EXCEPT ![r] = @ (+) SetToBag({<<"dlcreate", s.i, "vaultCreate">>})]
        /\ IF \E k \in 1..Len(files) : files[k].name = e.title
           THEN /\ cb' = [cb EXCEPT ![r]["dlcreate"] = Failed(s)]
                /\ UNCHANGED files
           ELSE /\ files' = Append(files, NewFile(e))
                /\ cb' = [cb EXCEPT ![r]["dlcreate"] = StartDoc(r, "dlcreate", s.i + 1)]
        /\ UNCHANGED <<call, settings, token, vaultFolders, repoCategories, repoLabels, discussions,
                       dir, pc, snap, dlg, dlfm, dlbody, requests, labelCreates>>

\* the callback of processFrontMatter that also replaces the body
FrontMatterWithBody(file, gh) ==
    [file EXCEPT !.description = gh.description, !.tags = gh.tags,
                 !.published = convertDateFormatToObsidian(gh.published),
                 !.series = IF gh.series # Empty THEN gh.series ELSE @,
                 !.body = gh.body]

\* what the callback given to processFrontMatter sets (main.ts 987-997)
FrontMatter(file, gh) ==
    [file EXCEPT !.description = gh.description, !.tags = gh.tags,
                 !.published = convertDateFormatToObsidian(gh.published),
                 !.series = IF gh.series # Empty THEN gh.series ELSE @]

\* processFrontMatter of one file (main.ts 984-999)
DlFmStep(r, k) ==
    LET idx == MapIndex(snap[r].ghArticleMap, files[k].slug)
        gh == snap[r].ghArticleMap[idx]
    IN  /\ k \in dlfm[r]
        /\ dlfm' = [dlfm EXCEPT ![r] = @ \ {k}]
        /\ issued' = [issued EXCEPT ![r]["dlfm"] = @ \cup {"processFrontMatter"}]
        /\ sent' = [sent EXCEPT ![r] = @ (+) SetToBag({<<"dlfm", k, "processFrontMatter">>})]
        /\ files' = IF idx # 0
                    THEN [files EXCEPT ![k] = FrontMatter(@, gh)]
                    ELSE files
        /\ UNCHANGED <<call, settings, token, vaultFolders, repoCategories, repoLabels, discussions,
                       dir, pc, snap, dlg, cb, dlbody, requests, labelCreates>>

\* the body update of the p-th listed file: vault.read and parseYaml
\* (main.ts 1007-1010)
DlBodyRead(r, p) ==
    /\ p \in DOMAIN dlbody[r]
    /\ dlbody[r][p].st = "read"
    /\ dlbody' = [dlbody EXCEPT ![r][p] =
                    IF MapIndex(snap[r].ghArticleMap, files[snap[r].markdownFiles[p]].slug) # 0
                    THEN [st |-> "modify", fm |-> <<files[snap[r].markdownFiles[p]]>>]
                    ELSE [st |-> "done", fm |-> <<>>]]
    /\ UNCHANGED <<call, settings, token, vaultFolders, files, repoCategories, repoLabels,
                   discussions, dir, pc, snap, dlg, cb, dlfm, issued, sent, requests, labelCreates>>

\* the body update of the p-th listed file: vault.modify with the front
\* matter read before (main.ts 1011-1012)
DlBodyModify(r, p) ==
    LET k == snap[r].markdownFiles[p]
    IN  /\ p \in DOMAIN dlbody[r]
        /\ dlbody[r][p].st = "modify"
        /\ files' = [files EXCEPT ![k] =
                        [dlbody[r][p].fm[1] EXCEPT
                            !.body = snap[r].ghArticleMap[MapIndex(snap[r].ghArticleMap,
                                                                   dlbody[r][p].fm[1].slug)].body]]
        /\ dlbody' = [dlbody EXCEPT ![r][p] = [st |-> "done", fm |-> <<>>]]
        /\ issued' = [issued EXCEPT ![r]["dlbody"] = @ \cup {"vaultModify"}]
        /\ sent' = [sent EXCEPT ![r] = @ (+) SetToBag({<<"dlbody", p, "vaultModify">>})]
        /\ UNCHANGED <<call, settings, token, vaultFolders, repoCategories, repoLabels, discussions,
                       dir, pc, snap, dlg, cb, dlfm, requests, labelCreates>>

(***************************************************************************)
(* One user trigger: an upload or a download, its dialogs and callbacks.   *)
(***************************************************************************)
Next ==
    \E r \in {1} :
        \/ Upload(r)
        \/ UpRepoInfo(r)
        \/ UpFetch(r)
        \/ UpMatch(r)
        \/ \E c \in Classes, approve \in BOOLEAN : Submit(r, c, approve)
        \/ CreateStep(r)
        \/ LabelsStep(r)
        \/ ContentStep(r)
        \/ Download(r)
        \/ DlFetch(r)
        \/ DlRead(r)
        \/ DlCreateStep(r)
        \/ \E k \in 1..Len(files) : DlFmStep(r, k)
        \/ \E p \in 1..Len(files) : DlBodyRead(r, p)
        \/ \E p \in 1..Len(files) : DlBodyModify(r, p)

Spec == Init /\ [][Next]_vars

(***************************************************************************)
(* Two upload runs, the second triggered once the first is over: its       *)
(* dialogs are answered and the callbacks it started have run to their end *)
(* with no request failed.                                                 *)
(***************************************************************************)
RunOver(r) ==
    /\ dir[r] = "upload" /\ pc[r] = "done" /\ snap[r].matched
    /\ \A c \in UpClasses : dlg[r][c] # "open" /\ cb[r][c].pc \in {"idle", "done"}

InitRerun == Init /\ checkSettings /\ categoryFound

UploadAgain == RunOver(1) /\ Upload(2)

NextRerun ==
    \/ Upload(1)
    \/ UploadAgain
    \/ \E r \in Runs :
          \/ UpRepoInfo(r)
          \/ UpFetch(r)
          \/ UpMatch(r)
          \/ \E c \in UpClasses, approve \in BOOLEAN : Submit(r, c, approve)
          \/ CreateStep(r)
          \/ LabelsStep(r)
          \/ ContentStep(r)

SpecRerun == InitRerun /\ [][NextRerun]_vars

(***************************************************************************)
(* Upload while the vault is in use: the user edits a listed file while a  *)
(* dialog waits for its answer, and triggers upload a second time before   *)
(* the first run's create dialog is answered.  The dialogs answered here   *)
(* are the two whose callbacks send a body; the labels dialog stays open.  *)
(***************************************************************************)
BodyClasses == {"create", "content"}

EditedBody == <<"e">>

InitLive ==
    /\ Init /\ checkSettings /\ categoryFound
    /\ settings.tagLabelPrefix = <<"t", "/">> /\ settings.seriesLabelPrefix = <<"s", "/">>
    /\ Len(repoLabels) = 4 /\ Len(discussions) <= 1

\* the user saves file k with another body while a dialog of the first run
\* waits
EditFile(k) ==
    /\ \E c \in BodyClasses : dlg[1][c] = "open"
    /\ files[k].raw = <<>> /\ files[k].body # EditedBody
    /\ files' = [files EXCEPT ![k].body = EditedBody]
    /\ UNCHANGED <<call, settings, token, vaultFolders, repoCategories, repoLabels,
                   discussions, dir, pc, snap, dlg, cb, dlfm, dlbody, issued, sent,
                   requests, labelCreates>>

\* the second click on the upload icon, the first run's create dialog not
\* answered yet (its handler may still be awaiting a request)
UploadDuring ==
    /\ dir[1] = "upload" /\ dlg[1]["create"] \notin {"on", "off"}
    /\ Upload(2)

NextLive ==
    \/ Upload(1)
    \/ UploadDuring
    \/ \E k \in 1..Len(files) : EditFile(k)
    \/ \E r \in Runs :
          \/ UpRepoInfo(r)
          \/ UpFetch(r)
          \/ UpMatch(r)
          \/ \E c \in BodyClasses, approve \in BOOLEAN : Submit(r, c, approve)
          \/ CreateStep(r)
          \/ ContentStep(r)

SpecLive == InitLive /\ [][NextLive]_vars

(***************************************************************************)
(* The text functions on their own: one call of a date conversion, with    *)
(* the other conversion applied to its result, or one split of a document  *)
(* text.                                                                   *)
(***************************************************************************)
InitCall ==
    /\ InitVault
    /\ files = <<>> /\ discussions = <<>> /\ Len(repoLabels) = 3
    /\ token = "tok" /\ settings.owner = "o" /\ settings.repo = "r"
    /\ vaultFolders = {"/", "Blog"} /\ repoCategories = {"Blog Posts"}
    /\ settings.tagLabelPrefix = <<"t", "/">> /\ settings.seriesLabelPrefix = <<"s", "/">>
    /\ \/ \E s \in DateInputs \cup Bodies, n \in {1, 2} :
             call = [op |-> "none", listing |-> n, arg |-> s, res |-> <<>>,
                     response |-> NoResponse]
       \/ \E q \in Responses :
             call = [NoCall EXCEPT !.response = q]

\* convertDateFormatToObsidian of the listing the call is from
ToObsidianOf(n, dateStr) ==
    IF n = 1
    THEN convertDateFormatToObsidianFirst(dateStr)
    ELSE convertDateFormatToObsidian(dateStr)

ProgramUnchanged ==
    UNCHANGED <<settings, token, vaultFolders, files, repoCategories, repoLabels,
                discussions, dir, pc, snap, dlg, cb, dlfm, dlbody, issued, requests,
                labelCreates, sent>>

ConvertToGH ==
    /\ call.op = "none" /\ call.arg \in DateInputs
    /\ call' = [call EXCEPT !.op = "toGH", !.res = convertDateFormatToGH(call.arg)]
    /\ ProgramUnchanged

ConvertToObsidian ==
    /\ call.op = "none" /\ call.arg \in DateInputs
    /\ call' = [call EXCEPT !.op = "toObsidian", !.res = ToObsidianOf(call.listing, call.arg)]
    /\ ProgramUnchanged

ConvertBack ==
    /\ call.op \in {"toGH", "toObsidian"}
    /\ call' = IF call.op = "toGH"
               THEN [call EXCEPT !.op = "toGH-toObsidian",
                                 !.res = ToObsidianOf(call.listing, call.res)]
               ELSE [call EXCEPT !.op = "toObsidian-toGH",
                                 !.res = convertDateFormatToGH(call.res)]
    /\ ProgramUnchanged

\* a document text with body call.arg, split as upload (sections[2].trim())
\* and as download (split("---")[2]) split it
SplitDocument ==
    /\ call.op = "none" /\ call.arg \in Bodies /\ call.listing = 2
    /\ LET sections == Split(DocText(YamlText, call.arg), Delimiter)
       IN  call' = [call EXCEPT !.op = "split",
                                !.res = [frontMatter |-> sections[2],
                                         upload |-> Trim(sections[3]),
                                         download |-> sections[3]]]
    /\ ProgramUnchanged

\* one call of executeGitHubGraphQL whose request was answered with
\* call.response
ExecuteQuery ==
    /\ call.op = "none" /\ call.response \in Responses
    /\ call' = [call EXCEPT !.op = "execute", !.res = executeGitHubGraphQL(call.response)]
    /\ ProgramUnchanged

NextCall == ConvertToGH \/ ConvertToObsidian \/ ConvertBack \/ SplitDocument \/ ExecuteQuery

SpecCall == InitCall /\ [][NextCall]_vars

(***************************************************************************)
(* Properties                                                              *)
(***************************************************************************)
HasPrefix(name) ==
    \/ StartsWith(name, settings.tagLabelPrefix)
    \/ StartsWith(name, settings.seriesLabelPrefix)

InNamespace(name) == HasPrefix(name) \/ name = settings.draftLabel

\* the step of run r's labels callback that ends the update of a pair
PairDone(r) ==
    /\ cb[r]["labels"].pc = "run"
    /\ \/ cb'[r]["labels"].pc = "done"
       \/ cb'[r]["labels"].pc = "run" /\ cb'[r]["labels"].i = cb[r]["labels"].i + 1

\* C1: whatever the tag prefix, series prefix and draft label, every label
\* that a step detaches from a discussion has a name that starts with the tag
\* prefix or the series prefix or is the draft label; so a label outside
\* that namespace that is on a discussion stays on it.
C1_OnlyManagedLabelsDetached ==
    [][\A d \in 1..Len(discussions) :
          \A l \in discussions[d].labels \ discussions'[d].labels :
              InNamespace(repoLabels[l])]_vars

\* a labels update has detached a label of a matched discussion that also
\* carries a label outside the namespace
C1_Witness ==
    \E r \in Runs : \E d \in 1..Len(snap[r].ghArticles) :
        /\ "removeLabels" \in issued[r]["labels"]
        /\ snap[r].ghArticles[d].labels \ discussions[d].labels # {}
        /\ \E l \in discussions[d].labels : ~InNamespace(repoLabels[l])

\* whether anything of class c of run r has started
ClassActive(r, c) ==
    \/ issued[r][c] # {}
    \/ c \in LoopClasses /\ cb[r][c].pc # "idle"
    \/ c = "dlfm" /\ dlfm[r] # {}
    \/ c = "dlbody" /\ Len(dlbody[r]) > 0

ClassState(r, c) ==
    <<issued[r][c], IF c \in LoopClasses THEN cb[r][c] ELSE IdleCb,
      IF c = "dlfm" THEN dlfm[r] ELSE {}, IF c = "dlbody" THEN dlbody[r] ELSE <<>>>>

\* C2: a class issues mutations only after its own dialog was submitted with
\* the toggle on; submitting a dialog (on or off) changes nothing of any
\* other class; and the discussions, the labels of the repository and the
\* local files change only in a step of a class whose dialog was accepted.
C2_ClassesGated ==
    /\ [](\A r \in Runs, c \in Classes : ClassActive(r, c) => dlg[r][c] = "on")
    /\ [][/\ \A r \in Runs, c \in Classes :
                (dlg[r][c] = "open" /\ dlg'[r][c] # "open") =>
                    \A c2 \in Classes \ {c} :
                        ClassState(r, c2)' = ClassState(r, c2) /\ dlg'[r][c2] = dlg[r][c2]
          /\ (discussions' # discussions \/ repoLabels' # repoLabels \/ files' # files) =>
                \E r \in Runs, c \in Classes :
                    /\ dlg[r][c] = "on"
                    /\ ClassState(r, c)' # ClassState(r, c)
                    /\ \A c2 \in Classes \ {c} : ClassState(r, c2)' = ClassState(r, c2)]_vars

\* one dialog was submitted off and issued nothing while another, submitted
\* on, issued its mutations
C2_Witness ==
    \E r \in Runs :
        /\ dlg[r]["create"] = "off" /\ issued[r]["create"] = {}
        /\ dlg[r]["labels"] = "on" /\ "addLabels" \in issued[r]["labels"]
        /\ dlg[r]["content"] = "open" /\ issued[r]["content"] = {}

\* in how many entries of a list of loop entries file k occurs
Occurrences(list, k) == Cardinality({p \in 1..Len(list) : list[p].file = k})

\* slugs of the article map that the update callbacks find for a listed file
MatchedSlugs(r) ==
    {files[k].slug : k \in {x \in Range(snap[r].markdownFiles) :
                               MapIndex(snap[r].ghArticleMap, files[x].slug) # 0}}

NewSlugs(r) == {snap[r].newArticles[p].slug : p \in 1..Len(snap[r].newArticles)}

UploadPartition(r) ==
    \A k \in Range(snap[r].markdownFiles) :
        Truthy(files[k].slug) =>
            Occurrences(snap[r].newFiles, k) + Occurrences(snap[r].existingFiles, k) = 1

\* C3 (as amended): after the matching of an upload run every listed local
\* document with a non-empty slug is in exactly one of newFiles and
\* existingFiles, once; after the matching of a download run every non-empty
\* slug carried by a fetched record is in exactly one of the new-remote set
\* and the set matched to a local document.
C3_PartitionBySlug ==
    \A r \in Runs :
        snap[r].matched =>
            /\ dir[r] = "upload" => UploadPartition(r)
            /\ dir[r] = "download" =>
                 \A d \in 1..Len(snap[r].ghArticles) :
                     Truthy(snap[r].ghArticles[d].slug) =>
                         (snap[r].ghArticles[d].slug \in NewSlugs(r))
                             # (snap[r].ghArticles[d].slug \in MatchedSlugs(r))

\* C3 (as claimed): ... and after the matching of a download run every
\* fetched record with a non-empty slug is in exactly one of the new-remote
\* set and the set matched to a local document.
C3_PartitionByRecord ==
    \A r \in Runs :
        snap[r].matched =>
            /\ dir[r] = "upload" => UploadPartition(r)
            /\ dir[r] = "download" =>
                 \A d \in 1..Len(snap[r].ghArticles) :
                     Truthy(snap[r].ghArticles[d].slug) =>
                         (\E p \in 1..Len(snap[r].newArticles) : snap[r].newArticles[p].id = d)
                             # (\E p \in 1..Len(snap[r].ghArticleMap) :
                                   /\ snap[r].ghArticleMap[p].id = d
                                   /\ snap[r].ghArticleMap[p].slug \in MatchedSlugs(r))

\* a download run has matched a local document to a slug that two fetched
\* records carry
C3_Witness ==
    \E r \in Runs :
        /\ dir[r] = "download" /\ snap[r].matched
        /\ \E d1, d2 \in 1..Len(snap[r].ghArticles) :
              /\ d1 < d2
              /\ snap[r].ghArticles[d1].slug = snap[r].ghArticles[d2].slug
              /\ snap[r].ghArticles[d1].slug \in MatchedSlugs(r)
              /\ Truthy(snap[r].ghArticles[d1].slug)

\* C4: the step that ends an accepted labels update of a matched pair
\* leaves, as the labels of the discussion whose names start with the tag
\* prefix or the series prefix, exactly the labels rendered from the local
\* document's tags and series (none when it has neither).
C4_LabelsReplaced ==
    [][\A r \in Runs :
          PairDone(r) =>
              {repoLabels'[l] : l \in {x \in discussions'[ExistingPost(r, "labels")].labels :
                                          HasPrefix(repoLabels'[x])}}
                  = Range(LabelsOf(snap[r].existingFiles[cb[r]["labels"].i].frontMatter))]_vars

\* a labels update has run to its end, removing labels and adding others
C4_Witness ==
    \E r \in Runs : \E d \in 1..Len(snap[r].ghArticles) :
        /\ cb[r]["labels"].pc = "done"
        /\ {"removeLabels", "addLabels"} \subseteq issued[r]["labels"]
        /\ snap[r].ghArticles[d].labels \ discussions[d].labels # {}
        /\ discussions[d].labels \ snap[r].ghArticles[d].labels # {}

\* C6: an upload run in a repository where no discussion category has the
\* configured name issues no mutation and opens no dialog.
C6_NoCategoryNoMutation ==
    \A r \in Runs :
        (dir[r] = "upload" /\ settings.blogPostCategory \notin repoCategories) =>
            /\ \A c \in Classes : issued[r][c] = {} /\ dlg[r][c] = "none"
            /\ "fetch" \notin requests[r]

\* an upload run has looked the category up, has not found it and has ended
C6_Witness ==
    \E r \in Runs :
        /\ dir[r] = "upload" /\ pc[r] = "done" /\ "repoInfo" \in requests[r]
        /\ settings.blogPostCategory \notin repoCategories

\* C7: with the token absent or the owner or the repo empty, checkSettings
\* is false and a triggered run, upload or download, issues no remote
\* request and no local write and opens no dialog.
C7_PreconditionsStopRun ==
    (~Truthy(token) \/ settings.owner = "" \/ settings.repo = "") =>
        /\ ~checkSettings
        /\ \A r \in Runs :
             /\ requests[r] = {}
             /\ \A c \in Classes : issued[r][c] = {} /\ dlg[r][c] = "none"

\* a run was triggered without a token and has ended
C7_Witness ==
    \E r \in Runs : dir[r] = "download" /\ pc[r] = "done" /\ ~Truthy(token)

\* C8 (as claimed): a loop callback that a failed operation has ended has
\* attempted every document of its class.
C8_FailureIsolated ==
    \A r \in Runs, c \in LoopClasses :
        cb[r][c].pc = "failed" => cb[r][c].i = Len(DocsOf(r, c))

\* C9 (as claimed): within one run at most one create-label mutation is
\* issued for each label name.
C9_OneCreatePerLabel ==
    \A r \in Runs : \A name \in BagToSet(labelCreates[r]) : CopiesIn(name, labelCreates[r]) <= 1

\* C10 (as claimed): no document without a slug is in the new set or the
\* matched set of either direction, and no local file is created from a
\* record without a slug.
C10_SluglessExcluded ==
    /\ \A r \in Runs :
         /\ \A p \in 1..Len(snap[r].newFiles) : Truthy(snap[r].newFiles[p].frontMatter.slug)
         /\ \A p \in 1..Len(snap[r].existingFiles) :
                Truthy(snap[r].existingFiles[p].frontMatter.slug)
         /\ \A s \in NewSlugs(r) \cup MatchedSlugs(r) : Truthy(s)
    /\ \A k \in 1..Len(files) : files[k].created => Truthy(files[k].slug)

\* the pairs of run r match different discussions
OnePairPerPost(r) ==
    \A p, q \in 1..Len(snap[r].existingFiles) :
        p # q => FindPost(snap[r].ghArticles, snap[r].existingFiles[p].frontMatter.slug)
                   # FindPost(snap[r].ghArticles, snap[r].existingFiles[q].frontMatter.slug)

\* run 2 updates the pairs that run 1 has updated to the end
SamePairsAgain ==
    /\ cb[1]["labels"].pc = "done"
    /\ snap[2].matched
    /\ snap[2].existingFiles = snap[1].existingFiles
    /\ OnePairPerPost(2)

\* C5 (as amended): when the labels update has completed for the matched
\* pairs and is run a second time for the same pairs with no change to the
\* local tags and series in between, the step that ends the second update of
\* a pair leaves on the discussion the label set the first run left; when
\* the document renders a label, the second run has again issued a
\* remove-labels and an add-labels mutation to get there.
C5_SecondRunSameLabels ==
    [][(SamePairsAgain /\ PairDone(2)) =>
          LET post == ExistingPost(2, "labels")
              fm   == snap[2].existingFiles[cb[2]["labels"].i].frontMatter
          IN  /\ discussions'[post].labels = snap[2].ghArticles[post].labels
              /\ LabelsOf(fm) # <<>> =>
                    {"removeLabels", "addLabels"} \subseteq issued'[2]["labels"]]_vars

\* C5 (as claimed): ... the second run issues no remove-labels and no
\* add-labels mutation.
C5_SecondRunSilent ==
    SamePairsAgain => issued[2]["labels"] \cap {"removeLabels", "addLabels"} = {}

\* the second run has updated to the end the pairs the first run updated
C5_Witness ==
    /\ SamePairsAgain
    /\ cb[2]["labels"].pc = "done"
    /\ Len(snap[2].existingFiles) > 0
    /\ {"removeLabels", "addLabels"} \subseteq issued[2]["labels"]

\* how often run r has issued mutation kind for document i of class c
Sent(r, c, i, kind) == CopiesIn(<<c, i, kind>>, sent[r])

\* the discussions that run r has fetched, as they are now
Fetched(r) == 1..Len(snap[r].ghArticles)

\* C11 (as claimed): the entry of a slug in a download run is the first
\* fetched record with that slug; in an upload run no two documents of the
\* new and matched lists carry the same slug, and no two discussions created
\* by the run carry the same slug.
C11_FirstWins ==
    \A r \in Runs :
        /\ \A p \in 1..Len(snap[r].ghArticleMap) :
               Truthy(snap[r].ghArticleMap[p].slug) =>
                   snap[r].ghArticleMap[p].id
                       = FindPost(snap[r].ghArticles, snap[r].ghArticleMap[p].slug)
        /\ LET docs == snap[r].newFiles \o snap[r].existingFiles
           IN  \A p, q \in 1..Len(docs) :
                   p # q => docs[p].frontMatter.slug # docs[q].frontMatter.slug
        /\ dir[r] = "upload" =>
               \A d1, d2 \in (1..Len(discussions)) \ Fetched(r) :
                   d1 # d2 => discussions[d1].slug # discussions[d2].slug

\* C12 (as claimed): once the content class of an upload run has sent an
\* update, every fetched discussion still has the title, the slug, the
\* description and the other metadata keys it was fetched with.
C12_ContentKeepsMetadata ==
    \A r \in Runs :
        Sent(r, "content", 1, "updateDiscussion") > 0 =>
            \A d \in Fetched(r) :
                /\ discussions[d].title = snap[r].ghArticles[d].title
                /\ discussions[d].slug = snap[r].ghArticles[d].slug
                /\ discussions[d].description = snap[r].ghArticles[d].description
                /\ discussions[d].extra = snap[r].ghArticles[d].extra

\* a step of class c of run r
ClassStep(r, c) == ClassState(r, c)' # ClassState(r, c)

\* C13: the upload frontmatter/labels class issues no create-discussion and
\* no update-discussion mutation and none of its steps changes the body of a
\* discussion; no step of the download frontmatter class changes the body of
\* a local file.
C13_FrontmatterKeepsBody ==
    /\ [](\A r \in Runs :
             issued[r]["labels"] \cap {"createDiscussion", "updateDiscussion"} = {})
    /\ [][\A r \in Runs :
             /\ ClassStep(r, "labels") =>
                    /\ Len(discussions') = Len(discussions)
                    /\ \A d \in 1..Len(discussions) : discussions'[d].body = discussions[d].body
             /\ ClassStep(r, "dlfm") =>
                    /\ Len(files') = Len(files)
                    /\ \A k \in 1..Len(files) : files'[k].body = files[k].body]_vars

\* an accepted download frontmatter update has given a local file the
\* remote description while the file's body is not the remote one
C13_Witness ==
    \E r \in Runs : \E k \in 1..Len(files) :
        /\ dlg[r]["dlfm"] = "on" /\ dlg[r]["dlbody"] = "off"
        /\ Sent(r, "dlfm", k, "processFrontMatter") = 1
        /\ files[k].description = "dr"
        /\ ~files[k].created
        /\ Truthy(files[k].slug)
        /\ files[k].body \in {PlainBody, DashedBody}

\* the labels update of pair p of run r has run to its end
LabelsUpdated(r, p) ==
    /\ p \in 1..Len(snap[r].existingFiles)
    /\ \/ cb[r]["labels"].pc = "done"
       \/ cb[r]["labels"].pc \in {"run", "failed"} /\ cb[r]["labels"].i > p

\* C14 (as claimed): once the labels update of a matched pair has run to its
\* end, the description and the published date in the discussion's metadata
\* are the local document's description and converted published date.
C14_FrontmatterUploaded ==
    \A r \in Runs : \A p \in 1..Len(snap[r].existingFiles) :
        (LabelsUpdated(r, p) /\ OnePairPerPost(r) /\ dlg[r]["content"] # "on") =>
            LET fm == snap[r].existingFiles[p].frontMatter
                d  == discussions[FindPost(snap[r].ghArticles, fm.slug)]
            IN  /\ d.description = fm.description
                /\ d.published = convertDateFormatToGH(fm.published)

\* MM/DD/YYYY
IsLocalDate(p) ==
    /\ Len(p) = 10
    /\ \A n \in 1..10 : (p[n] = "/") = (n \in {3, 6})
    /\ \A n \in 1..10 : p[n] # "-"

\* C15 (as claimed): when the accepted create class of an upload run has
\* ended, the run has issued for every new document whose k rendered labels
\* are all absent from the known labels exactly one create-discussion, k
\* create-label and one add-labels mutation, and a discussion made by the
\* run carries the document's slug and description, its published date as
\* YYYY-MM-DD when the local one is MM/DD/YYYY, and exactly the k labels.
C15_NewDocumentPlan ==
    \A r \in Runs :
        (dlg[r]["create"] = "on" /\ cb[r]["create"].pc \in {"done", "failed"}) =>
            \A i \in 1..Len(snap[r].newFiles) :
                LET fm    == snap[r].newFiles[i].frontMatter
                    names == LabelsOf(fm)
                IN  (/\ \A n \in 1..Len(names) : LabelId(snap[r].existingLabels, names[n]) = 0
                     /\ Cardinality(Range(names)) = Len(names)) =>
                        /\ Sent(r, "create", i, "createDiscussion") = 1
                        /\ Sent(r, "create", i, "createLabel") = Len(names)
                        /\ Sent(r, "create", i, "addLabels") = 1
                        /\ \E d \in (1..Len(discussions)) \ Fetched(r) :
                               /\ discussions[d].slug = fm.slug
                               /\ discussions[d].description = fm.description
                               /\ IsLocalDate(fm.published) =>
                                      discussions[d].published
                                          = SubSeq(fm.published, 7, 10) \o Dash
                                               \o SubSeq(fm.published, 1, 2) \o Dash
                                               \o SubSeq(fm.published, 4, 5)
                               /\ {repoLabels[l] : l \in discussions[d].labels} = Range(names)
                               /\ Cardinality(discussions[d].labels) = Len(names)

\* that the step issues mutation kind for document i of run r's create class
Issues(r, i, kind) ==
    CopiesIn(<<"create", i, kind>>, sent'[r]) > CopiesIn(<<"create", i, kind>>, sent[r])

\* C16 (as amended): for each new local document the operations are issued
\* in the order label creation for the labels not among the known labels,
\* then create-discussion, then add-labels: no create-label is issued for a
\* document after its create-discussion, create-discussion is issued only
\* when every rendered label of the document has an id, and add-labels only
\* for the discussion that the create-discussion call has made.
C16_LabelsThenDiscussion ==
    [][\A r \in Runs : \A i \in 1..Len(snap[r].newFiles) :
          LET s     == cb[r]["create"]
              names == LabelsOf(snap[r].newFiles[i].frontMatter)
          IN  /\ Issues(r, i, "createLabel") => Sent(r, "create", i, "createDiscussion") = 0
              /\ Issues(r, i, "createDiscussion") =>
                     {repoLabels[l] : l \in s.ids} = Range(names)
              /\ Issues(r, i, "addLabels") =>
                     /\ Sent(r, "create", i, "createDiscussion") = 1
                     /\ s.id \notin Fetched(r)
                     /\ discussions[s.id].slug = snap[r].newFiles[i].frontMatter.slug]_vars

\* C16 (as claimed): a create-label mutation has been issued for a new
\* document only if its create-discussion mutation has been.
C16_DiscussionThenLabels ==
    \A r \in Runs : \A i \in 1..Len(snap[r].newFiles) :
        Sent(r, "create", i, "createLabel") > 0 => Sent(r, "create", i, "createDiscussion") > 0

\* all three kinds of mutation have been issued for a new document
C16_Witness ==
    \E r \in Runs : \E i \in 1..Len(snap[r].newFiles) :
        /\ Sent(r, "create", i, "createLabel") > 0
        /\ Sent(r, "create", i, "createDiscussion") > 0
        /\ Sent(r, "create", i, "addLabels") > 0

\* C17 (as claimed): when the accepted create class of a download run has
\* ended, every fetched record whose non-empty slug no listed local document
\* carries has exactly one created file with that slug, and each created
\* file's published date is MM/DD/YYYY.
C17_NewArticlesBecomeFiles ==
    \A r \in Runs :
        (dlg[r]["dlcreate"] = "on" /\ cb[r]["dlcreate"].pc \in {"done", "failed"}) =>
            /\ \A d \in Fetched(r) :
                   (/\ Truthy(snap[r].ghArticles[d].slug)
                    /\ snap[r].ghArticles[d].slug \notin ExistingFileSlugs(snap[r].markdownFiles)) =>
                       Cardinality({k \in 1..Len(files) :
                                       files[k].created
                                           /\ files[k].slug = snap[r].ghArticles[d].slug}) = 1
            /\ \A k \in 1..Len(files) : files[k].created => IsLocalDate(files[k].published)

\* C21 (as claimed): a run whose fetch has returned discussions reaches the
\* matching whatever files the articles directory holds, and an upload run
\* lists every document that has a front matter with a slug.
C21_MalformedSkipped ==
    \A r \in Runs :
        (pc[r] = "done" /\ snap[r].ghArticles # <<>>) =>
            /\ snap[r].matched
            /\ dir[r] = "upload" =>
                   \A k \in Range(snap[r].markdownFiles) :
                       (files[k].raw = <<>> /\ Truthy(files[k].slug)) =>
                           \E e \in Range(snap[r].newFiles \o snap[r].existingFiles) : e.file = k

\* C22 (as claimed): once a remote call of an upload run has failed, no step
\* issues a further mutation of that run.
C22_FailureAbortsRun ==
    [][\A r \in Runs :
          (dir[r] = "upload" /\ \E c \in UpClasses : cb[r][c].pc = "failed") =>
              sent'[r] = sent[r]]_vars

\* C23 (as claimed): a run in a vault none of whose folders is the configured
\* articles directory sends no remote request.
C23_MissingRootStopsRun ==
    \A r \in Runs :
        settings.articlesDir \notin vaultFolders => requests[r] = {}

\* the map entry of the slug of file k in run r (0: none)
RemoteOf(r, k) == MapIndex(snap[r].ghArticleMap, files[k].slug)

\* a step of run r: of its handler or of one of its classes
RunStep(r) == pc'[r] # pc[r] \/ \E c \in Classes : ClassStep(r, c)

UploadKinds == {"createLabel", "createDiscussion", "addLabels", "getLabels",
                "removeLabels", "updateDiscussion"}

DownloadKinds == {"vaultCreate", "processFrontMatter", "vaultModify"}

\* C25: a download run issues no remote mutation and none of its steps
\* changes a discussion or the repository's labels, whatever the dialogs'
\* answers; an upload run issues no local write and none of its steps
\* creates or changes a local file.
C25_OneSidePerDirection ==
    /\ [](\A r \in Runs : \A c \in Classes :
             /\ dir[r] = "download" => issued[r][c] \cap UploadKinds = {}
             /\ dir[r] = "upload" => issued[r][c] \cap DownloadKinds = {})
    /\ [][\A r \in Runs :
             RunStep(r) =>
                 /\ dir'[r] = "download" =>
                        discussions' = discussions /\ repoLabels' = repoLabels
                 /\ dir'[r] = "upload" => files' = files]_vars

\* a download run with its three dialogs accepted has created a file,
\* processed a front matter and modified a file, and every discussion is as
\* it was fetched
C25_Witness ==
    \E r \in Runs :
        /\ dir[r] = "download"
        /\ \A c \in DownClasses : dlg[r][c] = "on"
        /\ {"vaultCreate"} \subseteq issued[r]["dlcreate"]
        /\ {"vaultModify"} \subseteq issued[r]["dlbody"]
        /\ \E k \in 1..Len(files) : files[k].created
        /\ \E k \in 1..Len(files) :
               /\ ~files[k].created /\ RemoteOf(r, k) # 0
               /\ files[k].body = snap[r].ghArticleMap[RemoteOf(r, k)].body
        /\ discussions = snap[r].ghArticles

\* both updates of the listed files of run r are over
BothUpdatesOver(r) ==
    /\ dlg[r]["dlfm"] = "on" /\ dlg[r]["dlbody"] = "on"
    /\ dlfm[r] = {}
    /\ \A p \in DOMAIN dlbody[r] : dlbody[r][p].st = "done"

\* C26 (as claimed): when the accepted frontmatter update and the accepted
\* body update of a download run are both over, every listed file with a
\* remote record holds the remote description, tags and published date and
\* the remote body.
C26_BothUpdatesKept ==
    \A r \in Runs :
        BothUpdatesOver(r) =>
            \A k \in Range(snap[r].markdownFiles) :
                RemoteOf(r, k) # 0 =>
                    LET gh == snap[r].ghArticleMap[RemoteOf(r, k)]
                    IN  /\ files[k].description = gh.description
                        /\ files[k].tags = gh.tags
                        /\ files[k].published = convertDateFormatToObsidian(gh.published)
                        /\ files[k].body = gh.body

\* C29 (as claimed): when the add-labels call of a matched pair's labels
\* update has failed, the discussion's labels are the ones it was fetched
\* with.
C29_FailedUpdateKeepsLabels ==
    \A r \in Runs :
        (/\ cb[r]["labels"].pc = "failed" /\ cb[r]["labels"].ph = "addLabels"
         /\ OnePairPerPost(r)) =>
            discussions[ExistingPost(r, "labels")].labels
                = snap[r].ghArticles[ExistingPost(r, "labels")].labels

\* C30 (as claimed): once the accepted frontmatter update of a listed file
\* with a remote record is done, the file's tags and series are the remote
\* record's, no series when the record has none.
C30_TagsAndSeriesFromRemote ==
    \A r \in Runs : \A k \in Range(snap[r].markdownFiles) :
        (/\ Sent(r, "dlfm", k, "processFrontMatter") > 0
         /\ RemoteOf(r, k) # 0
         /\ dlg[r]["dlbody"] # "on") =>
            LET gh == snap[r].ghArticleMap[RemoteOf(r, k)]
            IN  /\ files[k].tags = gh.tags
                /\ files[k].series = gh.series

\* C24 (as claimed): a call answered with a non-empty errors list throws
\* the first reported message, and a call that returns returns data.
C24_DataOrFailure ==
    call.op = "execute" =>
        /\ (call.response.hasErrors /\ Len(call.response.errors) > 0) =>
               call.res = Throw(call.response.errors[1])
        /\ call.res.kind = "return" => call.res.data # Undefined

\* C27 (as claimed): with local documents of pairwise different slugs, no
\* two discussions created after the first run's fetch carry the same slug,
\* also when upload was triggered again while the first run's create dialog
\* was open.
C27_OneDiscussionPerSlug ==
    (/\ snap[1].matched
     /\ \A p, q \in 1..Len(files) : (p # q /\ Truthy(files[p].slug)) => files[p].slug # files[q].slug) =>
        \A d1, d2 \in (1..Len(discussions)) \ Fetched(1) :
            d1 # d2 => discussions[d1].slug # discussions[d2].slug

\* the body that the split of file k's present content gives
PresentBody(k) == Trim(Section(Content(files[k]), 2))

\* C28 (as claimed): the body that a create-discussion or update-discussion
\* mutation gives a discussion is the body of the document's file as the
\* file is when the mutation is issued.
C28_PresentBodyUploaded ==
    [][\A r \in Runs :
          /\ (cb[r]["create"].pc = "run" /\ Len(discussions') = Len(discussions) + 1
                /\ cb'[r]["create"] # cb[r]["create"]) =>
                 discussions'[Len(discussions')].body
                     = PresentBody(snap[r].newFiles[cb[r]["create"].i].file)
          /\ (cb[r]["content"].pc = "run" /\ cb'[r]["content"] # cb[r]["content"]
                /\ cb'[r]["content"].pc # "failed") =>
                 discussions'[ExistingPost(r, "content")].body
                     = PresentBody(snap[r].existingFiles[cb[r]["content"].i].file)]_vars

\* the create class of run r was accepted and has run to its end
CreateCompleted(r) == dlg[r]["create"] = "on" /\ cb[r]["create"].pc = "done"

\* C31: when the create class of the first upload run was accepted and ran
\* to its end without error, a following upload run that has fetched and
\* matched lists every document the first run created a discussion for as
\* existing, lists none of them as new, and issues no create-discussion.
C31_RerunCreatesNothing ==
    (CreateCompleted(1) /\ snap[2].matched) =>
        /\ \A p \in 1..Len(snap[1].newFiles) :
               /\ \E q \in 1..Len(snap[2].existingFiles) :
                      snap[2].existingFiles[q].file = snap[1].newFiles[p].file
               /\ \A q \in 1..Len(snap[2].newFiles) :
                      snap[2].newFiles[q].file # snap[1].newFiles[p].file
        /\ "createDiscussion" \notin issued[2]["create"]

\* the first run has created discussions for its new documents; the second
\* run has fetched them, lists the documents as existing, and its dialogs
\* for existing pairs are answered
C31_Witness ==
    /\ CreateCompleted(1)
    /\ Len(snap[1].newFiles) > 0
    /\ snap[2].matched
    /\ Len(snap[2].ghArticles) >= Len(snap[1].ghArticles) + Len(snap[1].newFiles)
    /\ Len(snap[2].existingFiles) >= Len(snap[1].newFiles)
    /\ dlg[2]["create"] = "none"
    /\ dlg[2]["labels"] = "on"

\* whether some line of b is the delimiter
StandaloneDelimiter(b) == \E n \in 1..Len(Split(b, NL)) : Split(b, NL)[n] = Delimiter

\* C18 (as claimed): for a body b without the delimiter as a standalone
\* line, splitting the text "---\n" + yaml + "---\n" + b gives back the
\* serialized metadata and, up to surrounding white space, the body b, both
\* as upload and as download take it.
C18_SplitRoundTrip ==
    (call.op = "split" /\ ~StandaloneDelimiter(call.arg)) =>
        /\ call.res.frontMatter = NL \o YamlText
        /\ Trim(call.res.upload) = Trim(call.arg)
        /\ Trim(call.res.download) = Trim(call.arg)

\* C19 (as claimed): with the definitions of either listing, converting a
\* well-formed YYYY-MM-DD date to the local format gives a well-formed
\* MM/DD/YYYY date and converting that back gives the date itself; the same
\* holds from a well-formed MM/DD/YYYY date.
C19_DateRoundTrip ==
    /\ (call.op = "toObsidian" /\ call.arg \in WellFormedGH) => call.res \in WellFormedObsidian
    /\ (call.op = "toGH" /\ call.arg \in WellFormedObsidian) => call.res \in WellFormedGH
    /\ (call.op = "toObsidian-toGH" /\ call.arg \in WellFormedGH) => call.res = call.arg
    /\ (call.op = "toGH-toObsidian" /\ call.arg \in WellFormedObsidian) => call.res = call.arg

\* the failure the conversions are said to end with
InvalidDateFormat == <<"InvalidDateFormat">>

\* C20 (as claimed): a conversion of an input that does not split into
\* exactly three components on its separator ends with InvalidDateFormat
\* and returns no date string.
C20_InvalidDateRejected ==
    /\ (call.op = "toGH" /\ Len(Split(call.arg, Slash)) # 3) => call.res = InvalidDateFormat
    /\ (call.op = "toObsidian" /\ Len(Split(call.arg, Dash)) # 3) => call.res = InvalidDateFormat

=============================================================================
